---------------------------- MODULE Spec2Model ----------------------------
(***************************************************************************)
(* A model of TrexRewardModel (ding/reward_model/trex_reward_model.py):    *)
(* the preference reward trainer's training set (create_training_data),    *)
(* its training loop (train, _train), reward estimation (estimate) and     *)
(* the data lifecycle (clear_data).                                        *)
(*                                                                         *)
(* A frame of a demonstration is identified as <<bin, episode, index>>,    *)
(* all three counted from 0 as the code's indices are.  A trajectory is    *)
(* the sequence of its frames, a bin a sequence of trajectories, and the   *)
(* demonstrations (pre_expert_data) a sequence of bins.                    *)
(***************************************************************************)
EXTENDS Integers, Sequences, FiniteSets, TLC

(***************************************************************************)
(* Bounds of the model.                                                    *)
(***************************************************************************)
\* most bins in a demonstration file
MaxBins == 2
\* most episodes in one bin
MaxEpisodes == 2
\* longest trajectory (frames)
MaxLen == 4
\* trajectory length of the demonstrations of the lifecycle specification
LifeLen == 2
\* largest num_trajs and largest num_snippets
MaxCount == 1
\* most pairs the training set is let grow to
MaxPairs == 2
\* largest update_per_collect
MaxUpc == 2
\* train_iter is not let grow beyond this
MaxTrainIter == 2
\* largest clear_buffer_per_iters and largest iteration handed to clear_data
MaxPeriod == 2
\* records in the replay buffer, and longest batch handed to estimate
BufSize == 2
\* completed estimate calls are not counted beyond this
MaxEstimates == 1

(***************************************************************************)
(* Constants of the program.                                               *)
(***************************************************************************)
\* assert num_bins >= 2
MinBins == 2
\* si, sj = np.random.randint(6, size=num_trajs)
FullStartHigh == 6
\* step = np.random.randint(3, 7, size=num_trajs)
FullStepLow == 3
FullStepHigh == 7
\* [ti_start:ti_start + rand_length[n]:2]
SnippetStride == 2

\* clear_buffer_per_iters when the configuration has no such attribute
NoPeriod == -1

Min2(a, b) == IF a <= b THEN a ELSE b
Max2(a, b) == IF a >= b THEN a ELSE b

(***************************************************************************)
(* numpy and Python primitives, as the code uses them.                     *)
(***************************************************************************)
\* np.random.randint(low, high): the values it can return; empty when it raises
RandInt(low, high) == low .. (high - 1)

\* np.random.randint(low, high, size=size) raises: a negative size always; an
\* empty range only when size > 0 (numpy >= 1.17 returns the empty array for
\* size 0 before it looks at the range)
RandIntRaises(low, high, size) == size < 0 \/ (size > 0 /\ low >= high)

\* Python's normalisation of a slice bound i for a sequence of n items
SliceBound(i, n) == IF i < 0 THEN Max2(i + n, 0) ELSE Min2(i, n)

\* d[start:stop:step] for step > 0 (indices counted from 0)
PySlice(d, start, stop, step) ==
    LET n == Len(d)
        lo == SliceBound(start, n)
        hi == SliceBound(stop, n)
        cnt == IF hi > lo THEN ((hi - lo - 1) \div step) + 1 ELSE 0
    IN [j \in 1..cnt |-> d[lo + (j - 1) * step + 1]]

\* d[start::step]
PySliceFrom(d, start, step) == PySlice(d, start, Len(d), step)

(***************************************************************************)
(* Demonstrations.                                                         *)
(***************************************************************************)
\* the trajectory of `len` frames recorded as episode t of bin b
Trajectory(b, t, len) == [k \in 1..len |-> <<b, t, k - 1>>]

\* the demonstrations whose bin b holds episodes of the lengths lens[b]
Episodes(lens) ==
    [b \in 1..Len(lens) |->
        [t \in 1..Len(lens[b]) |-> Trajectory(b - 1, t - 1, lens[b][t])]]

\* demo_lengths of create_training_data
DemoLengths(demos) ==
    [b \in 1..Len(demos) |-> [t \in 1..Len(demos[b]) |-> Len(demos[b][t])]]

\* np.min(demo_lengths) raises: no bins or no episodes (a zero-size array), or
\* bins of different sizes (a ragged array: numpy raises, or yields a list that
\* min() cannot compare with max_snippet_length)
NpMinRaises(lengths) ==
    \/ Len(lengths) = 0
    \/ \E b \in 1..Len(lengths) : Len(lengths[b]) = 0
    \/ \E b, c \in 1..Len(lengths) : Len(lengths[b]) # Len(lengths[c])

\* np.min(demo_lengths), when it does not raise
NpMin(lengths) ==
    LET all == UNION {{lengths[b][t] : t \in 1..Len(lengths[b])} : b \in 1..Len(lengths)}
    IN CHOOSE m \in all : \A x \in all : m <= x

\* max_snippet_length = min(np.min(demo_lengths), max_snippet_length) without the
\* clamp (a mutant of ClampedMax)
UnclampedMax(lengths, max_snippet_length) == max_snippet_length

\* max_snippet_length = min(np.min(demo_lengths), max_snippet_length)
ClampedMax(lengths, max_snippet_length) == Min2(NpMin(lengths), max_snippet_length)

(***************************************************************************)
(* The pairs create_training_data can draw.  A drawn pair is a record      *)
(* [obs, label, org]: obs = <<traj_i, traj_j>> and label are what the code *)
(* appends; org records where the pair came from (the bins, and for a      *)
(* snippet pair <<ti_start, tj_start, rand_length>>), which the code does  *)
(* not keep.                                                               *)
(***************************************************************************)
\* the label with the comparison turned round (a mutant of Label)
LabelFlipped(bi, bj) == IF bi >= bj THEN 1 ELSE 0

\* label = int(bi <= bj)
Label(bi, bj) == IF bi <= bj THEN 1 ELSE 0

\* bi, bj = np.random.choice(num_bins, size=(2, ), replace=False)
BinPairs(num_bins) == {p \in (0..(num_bins - 1)) \X (0..(num_bins - 1)) : p[1] # p[2]}

\* np.random.choice(len(self.pre_expert_data[b]))
EpisodeChoices(demos, b) == 0 .. (Len(demos[b + 1]) - 1)

\* one iteration of the full-trajectory loop
FullPair(demos, bi, bj, ti, tj, si, sj, step) ==
    [obs |-> << PySliceFrom(demos[bi + 1][ti + 1], si, step),
                PySliceFrom(demos[bj + 1][tj + 1], sj, step) >>,
     label |-> Label(bi, bj),
     org |-> [kind |-> "full", bi |-> bi, bj |-> bj, draw |-> << >>]]

\* the pairs one iteration of the full-trajectory loop can append
FullPairs(demos) ==
    UNION { { FullPair(demos, p[1], p[2], ti, tj, si, sj, step) :
                ti \in EpisodeChoices(demos, p[1]), tj \in EpisodeChoices(demos, p[2]),
                si \in RandInt(0, FullStartHigh), sj \in RandInt(0, FullStartHigh),
                step \in RandInt(FullStepLow, FullStepHigh) }
            : p \in BinPairs(Len(demos)) }

\* the snippet without the down-sampling (a mutant of SnippetSlice)
SnippetSliceAll(d, start, length) == PySlice(d, start, start + length, 1)

\* d[start:start + rand_length[n]:2]
SnippetSlice(d, start, length) == PySlice(d, start, start + length, SnippetStride)

\* the later snippet's start drawn without regard to the earlier one's (a
\* mutant of LaterStarts)
LaterStartsFree(first_start, len_later, length) == RandInt(0, len_later - length + 1)

\* np.random.randint(first_start, len(later trajectory) - rand_length[n] + 1)
LaterStarts(first_start, len_later, length) ==
    RandInt(first_start, len_later - length + 1)

\* np.random.randint(min_length - rand_length[n] + 1)
EarlierStarts(min_length, length) == RandInt(0, min_length - length + 1)

\* what a start draw that raises (an empty range) leaves of the iteration
RaisedDraw ==
    [obs |-> << << >>, << >> >>, label |-> 0,
     org |-> [kind |-> "raise", bi |-> 0, bj |-> 0, draw |-> << >>]]

SnippetPair(demos, bi, bj, ti, tj, ti_start, tj_start, length) ==
    [obs |-> << SnippetSlice(demos[bi + 1][ti + 1], ti_start, length),
                SnippetSlice(demos[bj + 1][tj + 1], tj_start, length) >>,
     label |-> Label(bi, bj),
     org |-> [kind |-> "snippet", bi |-> bi, bj |-> bj,
              draw |-> <<ti_start, tj_start, length>>]]

\* one iteration of the snippet loop for the bins, episodes and length drawn
SnippetDraws(demos, bi, bj, ti, tj, length) ==
    LET di == demos[bi + 1][ti + 1]
        dj == demos[bj + 1][tj + 1]
        min_length == Min2(Len(di), Len(dj))
        first == EarlierStarts(min_length, length)
    IN IF first = {} THEN {RaisedDraw}
       ELSE UNION {
            IF bi < bj
            THEN LET second == LaterStarts(s1, Len(dj), length)
                 IN IF second = {} THEN {RaisedDraw}
                    ELSE {SnippetPair(demos, bi, bj, ti, tj, s1, s2, length) :
                            s2 \in second}
            ELSE LET second == LaterStarts(s1, Len(di), length)
                 IN IF second = {} THEN {RaisedDraw}
                    ELSE {SnippetPair(demos, bi, bj, ti, tj, s2, s1, length) :
                            s2 \in second}
            : s1 \in first }

\* what one iteration of the snippet loop can do: the pairs it can append, and
\* RaisedDraw when a start draw can raise
SnippetOutcomes(demos, min_snippet_length, max_snippet_length) ==
    UNION { UNION { SnippetDraws(demos, p[1], p[2], ti, tj, length) :
                        ti \in EpisodeChoices(demos, p[1]),
                        tj \in EpisodeChoices(demos, p[2]),
                        length \in RandInt(min_snippet_length, max_snippet_length) }
            : p \in BinPairs(Len(demos)) }

(***************************************************************************)
(* create_training_data.  The training set is handled as a record          *)
(* [obs, labels, org]: training_obs, training_labels and, beside them, the *)
(* origin of every stored pair.                                            *)
(***************************************************************************)
EmptySet == [obs |-> << >>, labels |-> << >>, org |-> << >>]

\* the drawn pairs stored in place of the old training set (a mutant of
\* AppendPairs)
ReplacePairs(old, ps) ==
    [obs |-> [i \in 1..Len(ps) |-> ps[i].obs],
     labels |-> [i \in 1..Len(ps) |-> ps[i].label],
     org |-> [i \in 1..Len(ps) |-> ps[i].org]]

\* self.training_obs.append((traj_i, traj_j)); self.training_labels.append(label)
\* for the drawn pairs ps, in their order
AppendPairs(old, ps) ==
    [obs |-> old.obs \o [i \in 1..Len(ps) |-> ps[i].obs],
     labels |-> old.labels \o [i \in 1..Len(ps) |-> ps[i].label],
     org |-> old.org \o [i \in 1..Len(ps) |-> ps[i].org]]

Outcome(raised, cause, data) == [raised |-> raised, cause |-> cause, data |-> data]

\* the snippet loop over the iterations' outcomes ss: it appends until a draw
\* raises
SnippetLoop(old, ss) ==
    LET bad == {i \in 1..Len(ss) : ss[i].org.kind = "raise"}
        n == IF bad = {} THEN Len(ss)
             ELSE (CHOOSE i \in bad : \A j \in bad : i <= j) - 1
    IN Outcome(bad # {}, IF bad = {} THEN "none" ELSE "start_draw",
               AppendPairs(old, SubSeq(ss, 1, n)))

\* create_training_data without its assert num_bins >= 2 (a mutant of
\* RaisesBeforeLoops)
RaisesBeforeLoopsNoAssert(demos, c) ==
    IF NpMinRaises(DemoLengths(demos)) THEN "np_min"
    ELSE IF RandIntRaises(0, FullStartHigh, c.num_trajs) THEN "num_trajs"
    ELSE "none"

\* where create_training_data raises before its first loop, "none" when it
\* does not: np.min(demo_lengths), assert num_bins >= 2, and the three
\* np.random.randint(..., size=num_trajs)
RaisesBeforeLoops(demos, c) ==
    IF NpMinRaises(DemoLengths(demos)) THEN "np_min"
    ELSE IF ~(Len(demos) >= MinBins) THEN "num_bins"
    ELSE IF RandIntRaises(0, FullStartHigh, c.num_trajs) THEN "num_trajs"
    ELSE "none"

\* rand_length = np.random.randint(min_snippet_length, max_snippet_length,
\* size=num_snippets) raises
RandLengthRaises(demos, c) ==
    RandIntRaises(c.min_snippet_length,
                  ClampedMax(DemoLengths(demos), c.max_snippet_length),
                  c.num_snippets)

\* the draws of the full-trajectory loop: one pair per iteration
FullLoops(demos, c) ==
    IF RaisesBeforeLoops(demos, c) # "none" THEN {<< >>}
    ELSE [1..c.num_trajs -> FullPairs(demos)]

\* the draws of the snippet loop: one outcome per iteration
SnippetLoops(demos, c) ==
    IF RaisesBeforeLoops(demos, c) # "none" \/ RandLengthRaises(demos, c) THEN {<< >>}
    ELSE [1..c.num_snippets ->
            SnippetOutcomes(demos, c.min_snippet_length,
                            ClampedMax(DemoLengths(demos), c.max_snippet_length))]

\* one call of create_training_data from the training set `old`, with the
\* draws fs of its full-trajectory loop and ss of its snippet loop: whether it
\* raised (and where), and the training set it leaves
CreateTrainingData(demos, c, old, fs, ss) ==
    IF RaisesBeforeLoops(demos, c) # "none"
    THEN Outcome(TRUE, RaisesBeforeLoops(demos, c), old)
    ELSE IF RandLengthRaises(demos, c)
    THEN Outcome(TRUE, "rand_length", AppendPairs(old, fs))
    ELSE SnippetLoop(AppendPairs(old, fs), ss)

(***************************************************************************)
(* train and _train.                                                       *)
(***************************************************************************)
\* list(zip(training_inputs, training_outputs))
Zip(obs, labels) ==
    [i \in 1..Min2(Len(obs), Len(labels)) |-> [obs |-> obs[i], label |-> labels[i]]]

\* the pairs and the labels shuffled apart, each in an order of its own (a
\* mutant of Shuffles)
ShufflesApart(list) ==
    LET n == Len(list)
        Perms == {q \in [1..n -> 1..n] : \A i, j \in 1..n : i # j => q[i] # q[j]}
    IN {[i \in 1..n |-> [obs |-> list[p[i]].obs, label |-> list[q[i]].label]] :
          p \in Perms, q \in Perms}

\* the orders np.random.shuffle(training_data) can leave the list in: the
\* list holds the (pair, label) tuples of zip, and shuffle swaps its items
Shuffles(list) ==
    LET n == Len(list)
    IN {[i \in 1..n |-> list[p[i]]] :
          p \in {q \in [1..n -> 1..n] : \A i, j \in 1..n : i # j => q[i] # q[j]}}

\* _train without the return inside the loop: every sample is processed (a
\* mutant of TrainPass)
TrainPassAll(training_obs, training_labels) ==
    [i \in 1..Len(training_labels) |->
        [obs |-> training_obs[i], label |-> training_labels[i]]]

\* _train: the samples it runs learn, zero_grad, backward and step on.  The
\* return at the end of the loop body ends the pass after the first sample.
TrainPass(training_obs, training_labels) ==
    IF Len(training_labels) = 0 THEN << >>
    ELSE << [obs |-> training_obs[1], label |-> training_labels[1]] >>

\* one epoch on the shuffled list: training_obs, training_labels =
\* zip(*training_data); self._train(training_obs, training_labels)
Epoch(shuffled) ==
    [shuffled |-> shuffled,
     pass |-> TrainPass([i \in 1..Len(shuffled) |-> shuffled[i].obs],
                        [i \in 1..Len(shuffled) |-> shuffled[i].label])]

\* the runs of n epochs from the list: each epoch shuffles the list the one
\* before left
RECURSIVE Epochs(_, _)
Epochs(list, n) ==
    IF n <= 0 THEN {<< >>}
    ELSE UNION { { <<Epoch(l2)>> \o rest : rest \in Epochs(l2, n - 1) }
                 : l2 \in Shuffles(list) }

RECURSIVE Samples(_)
\* how many samples the epochs processed
Samples(epochs) ==
    IF epochs = << >> THEN 0 ELSE Len(Head(epochs).pass) + Samples(Tail(epochs))

\* training_obs, training_labels = zip(*training_data): with no item in the
\* list zip yields nothing, and unpacking into the two names raises ValueError
UnzipRaises(training_data) == Len(training_data) = 0

\* calc_accuracy giving an accuracy for the empty set too (a mutant of
\* CalcAccuracyRaises)
CalcAccuracyReturns(training_inputs) == FALSE

\* calc_accuracy: return num_correct / len(training_inputs), a float division
\* that raises ZeroDivisionError when there is no input
CalcAccuracyRaises(training_inputs) == Len(training_inputs) = 0

\* where train() raises: in the first epoch at the unpacking, or after the
\* epochs where the accuracy is computed; "none" when it returns
TrainRaises(training_data, training_inputs, epochs) ==
    IF epochs >= 1 /\ UnzipRaises(training_data) THEN "unpack"
    ELSE IF CalcAccuracyRaises(training_inputs) THEN "calc_accuracy"
    ELSE "none"

(***************************************************************************)
(* estimate.                                                               *)
(***************************************************************************)
\* the rewards the reward network can give
NetRewards == {7}

\* the batches handed to estimate: records of the replay buffer
Batches == UNION {[1..n -> 1..BufSize] : n \in 0..BufSize}

\* BaseRewardModel.reward_deepcopy: a new record per item, with a copy of the
\* item's reward (id stands for the fields the copy shares with the item)
RewardDeepcopy(buf, data) ==
    [i \in 1..Len(data) |-> [id |-> data[i], reward |-> buf[data[i]]]]

RECURSIVE WriteThrough(_, _, _)
\* item['reward'] = rew written to the records of the input batch (a mutant of
\* AssignRewards: what the loop does when the items are not copies)
WriteThrough(buf, items, rews) ==
    IF items = << >> THEN [buffer |-> buf, items |-> << >>]
    ELSE LET rest == WriteThrough([buf EXCEPT ![Head(items).id] = Head(rews)],
                                  Tail(items), Tail(rews))
         IN [buffer |-> rest.buffer,
             items |-> <<[Head(items) EXCEPT !.reward = Head(rews)]>> \o rest.items]

\* for item, rew in zip(train_data_augmented, sum_rewards): item['reward'] = rew
\* the buffer's records and the items after the loop
AssignRewards(buf, items, rews) ==
    [buffer |-> buf,
     items |-> [i \in 1..Min2(Len(items), Len(rews)) |->
                  [items[i] EXCEPT !.reward = rews[i]]]]

(***************************************************************************)
(* clear_data.                                                             *)
(***************************************************************************)
\* the condition with the test turned round (a mutant of ClearDue)
ClearDueNot(c, iter) ==
    c.clear_buffer_per_iters # NoPeriod /\ iter % c.clear_buffer_per_iters # 0

\* hasattr(self.cfg, 'clear_buffer_per_iters') and
\* iter % self.cfg.clear_buffer_per_iters == 0, for a period other than 0
ClearDue(c, iter) ==
    c.clear_buffer_per_iters # NoPeriod /\ iter % c.clear_buffer_per_iters = 0

(***************************************************************************)
(* The trainer.                                                            *)
(***************************************************************************)
VARIABLES
    pc,               \* "new": in __init__, before load_expert_data;
                      \* "ready": constructed; "failed": __init__ raised
    cfg,              \* the configuration
    episodes_pkl,     \* the demonstrations stored in episodes_data.pkl
    pre_expert_data,  \* self.pre_expert_data
    training_obs,     \* self.training_obs
    training_labels,  \* self.training_labels
    origin,           \* where each stored pair came from (kept beside training_obs)
    train_iter,       \* self.train_iter
    estimate_iter,    \* self.estimate_iter
    buffer,           \* the reward of each record of the caller's replay buffer
    call,             \* the call made last: its arguments, what it did, its result
    created,          \* calls of create_training_data that returned since the
                      \* training set was last emptied
    estimated,        \* calls of estimate that returned
    run               \* the end-to-end scenario: the position in its snippet
                      \* loop and the pair appended last

vars == << pc, cfg, episodes_pkl, pre_expert_data, training_obs, training_labels,
           origin, train_iter, estimate_iter, buffer, call, created, estimated, run >>

NoOpt == [learn |-> 0, zero_grad |-> 0, backward |-> 0, step |-> 0]

\* a call record: op, the argument (iter of clear_data, data of estimate),
\* whether the call raised and where, the returned batch of estimate (ret),
\* the epochs of train and the calls train made on the network and optimizer
NoCall ==
    [op |-> "none", raised |-> FALSE, cause |-> "none", iter |-> -1,
     data |-> << >>, ret |-> << >>, epochs |-> << >>, opt |-> NoOpt]

TrainingSet == [obs |-> training_obs, labels |-> training_labels, org |-> origin]


\* __init__ up to the call of load_expert_data (lines 78-92), for the
\* demonstration files and configurations given
InitOver(files, configs) ==
    /\ pc = "new"
    /\ cfg \in configs
    /\ episodes_pkl \in files
    /\ pre_expert_data = << >>
    /\ training_obs = << >>
    /\ training_labels = << >>
    /\ origin = << >>
    /\ train_iter = 0
    /\ estimate_iter = 0
    /\ buffer = [i \in 1..BufSize |-> i - 1]
    /\ call = NoCall
    /\ created = 0
    /\ estimated = 0

\* load_expert_data, which ends __init__: the demonstrations are read and the
\* training set is created; __init__ raises when create_training_data does
LoadExpertData ==
    /\ pc = "new"
    /\ pre_expert_data' = episodes_pkl
    /\ \E draw \in FullLoops(episodes_pkl, cfg) \X SnippetLoops(episodes_pkl, cfg) :
         LET out == CreateTrainingData(episodes_pkl, cfg, TrainingSet, draw[1], draw[2])
         IN
         /\ training_obs' = out.data.obs
         /\ training_labels' = out.data.labels
         /\ origin' = out.data.org
         /\ pc' = IF out.raised THEN "failed" ELSE "ready"
         /\ created' = IF out.raised THEN created ELSE created + 1
         /\ call' = [NoCall EXCEPT !.op = "load_expert_data",
                                   !.raised = out.raised, !.cause = out.cause]
    /\ UNCHANGED << cfg, episodes_pkl, train_iter, estimate_iter, buffer,
                    estimated, run >>

\* a later call of create_training_data
CreateTrainingDataCall ==
    /\ pc = "ready"
    /\ Len(training_obs) + cfg.num_trajs + cfg.num_snippets <= MaxPairs
    /\ created < MaxPairs
    /\ \E draw \in FullLoops(pre_expert_data, cfg) \X SnippetLoops(pre_expert_data, cfg) :
         LET out == CreateTrainingData(pre_expert_data, cfg, TrainingSet, draw[1], draw[2])
         IN
         /\ training_obs' = out.data.obs
         /\ training_labels' = out.data.labels
         /\ origin' = out.data.org
         /\ created' = IF out.raised THEN created ELSE created + 1
         /\ call' = [NoCall EXCEPT !.op = "create_training_data",
                                   !.raised = out.raised, !.cause = out.cause]
    /\ UNCHANGED << pc, cfg, episodes_pkl, pre_expert_data, train_iter,
                    estimate_iter, buffer, estimated, run >>

\* train() on an empty training set: with an epoch to run, zip(*training_data)
\* yields nothing to unpack in the first epoch; with none, calc_accuracy
\* divides by len(training_inputs) = 0
TrainEmpty ==
    /\ pc = "ready"
    /\ Zip(training_obs, training_labels) = << >>
    /\ LET cause == TrainRaises(Zip(training_obs, training_labels), training_obs,
                                cfg.update_per_collect)
       IN call' = [NoCall EXCEPT !.op = "train", !.raised = (cause # "none"),
                                 !.cause = cause]
    /\ UNCHANGED << pc, cfg, episodes_pkl, pre_expert_data, training_obs,
                    training_labels, origin, train_iter, estimate_iter, buffer,
                    created, estimated, run >>

\* train() on a training set that is not empty
Train ==
    /\ pc = "ready"
    /\ Zip(training_obs, training_labels) # << >>
    /\ train_iter + cfg.update_per_collect <= MaxTrainIter
    /\ \E epochs \in Epochs(Zip(training_obs, training_labels), cfg.update_per_collect) :
         /\ train_iter' = train_iter + Len(epochs)
         /\ call' = [NoCall EXCEPT !.op = "train", !.epochs = epochs,
                       !.opt = [learn |-> Samples(epochs), zero_grad |-> Samples(epochs),
                                backward |-> Samples(epochs), step |-> Samples(epochs)]]
    /\ UNCHANGED << pc, cfg, episodes_pkl, pre_expert_data, training_obs,
                    training_labels, origin, estimate_iter, buffer, created,
                    estimated, run >>

\* estimate(data); torch.stack raises on the empty batch
Estimate ==
    /\ pc = "ready"
    /\ estimated < MaxEstimates
    /\ \E data \in Batches :
         IF data = << >>
         THEN /\ call' = [NoCall EXCEPT !.op = "estimate", !.raised = TRUE,
                                        !.cause = "stack"]
              /\ UNCHANGED << buffer, estimated >>
         ELSE \E sum_rewards \in [1..Len(data) -> NetRewards] :
                LET train_data_augmented == RewardDeepcopy(buffer, data)
                    done == AssignRewards(buffer, train_data_augmented, sum_rewards)
                IN /\ buffer' = done.buffer
                   /\ estimated' = estimated + 1
                   /\ call' = [NoCall EXCEPT !.op = "estimate", !.data = data,
                                             !.ret = done.items]
    /\ UNCHANGED << pc, cfg, episodes_pkl, pre_expert_data, training_obs,
                    training_labels, origin, train_iter, estimate_iter, created, run >>

\* clear_data(iter); a period of 0 raises ZeroDivisionError
ClearData ==
    /\ pc = "ready"
    /\ \E iter \in 0..MaxPeriod :
         IF cfg.clear_buffer_per_iters = 0
         THEN /\ call' = [NoCall EXCEPT !.op = "clear_data", !.iter = iter,
                                        !.raised = TRUE, !.cause = "modulo"]
              /\ UNCHANGED << training_obs, training_labels, origin, created >>
         ELSE /\ call' = [NoCall EXCEPT !.op = "clear_data", !.iter = iter]
              /\ IF ClearDue(cfg, iter)
                 THEN /\ training_obs' = << >>
                      /\ training_labels' = << >>
                      /\ origin' = << >>
                      /\ created' = 0
                 ELSE UNCHANGED << training_obs, training_labels, origin, created >>
    /\ UNCHANGED << pc, cfg, episodes_pkl, pre_expert_data, train_iter,
                    estimate_iter, buffer, estimated, run >>

(***************************************************************************)
(* The inputs of the specifications.                                       *)
(***************************************************************************)
Config(nt, ns, mn, mx, upc, period) ==
    [num_trajs |-> nt, num_snippets |-> ns, min_snippet_length |-> mn,
     max_snippet_length |-> mx, update_per_collect |-> upc,
     clear_buffer_per_iters |-> period]

\* the lifecycle: two bins of one episode each, every update_per_collect and
\* every clearing period
LifeFiles == {Episodes([b \in 1..MinBins |-> <<LifeLen>>])}

LifeConfigs ==
    {Config(nt, ns, 1, LifeLen, upc, period) :
        nt \in 0..MaxCount, ns \in 0..MaxCount, upc \in 0..MaxUpc,
        period \in {NoPeriod} \cup (1..MaxPeriod)}

\* dataset construction: every shape of demonstration file, and every kind of
\* count and snippet bound
TrajLens == (MaxLen - 1)..MaxLen

BinShapes ==
    {<< >>} \cup {<<l>> : l \in TrajLens}
            \cup {[t \in 1..MaxEpisodes |-> MaxLen - (t % 2)]}

DataFiles ==
    {Episodes(lens) : lens \in UNION {[1..nb -> BinShapes] : nb \in 0..MaxBins}}

DataConfigs ==
    {Config(nt, ns, mn, mx, 1, 1) :
        nt \in (-1)..MaxCount, ns \in (-1)..MaxCount,
        mn \in {1, MaxLen}, mx \in {MaxLen - 1, MaxLen + 1}}

\* outside the end-to-end scenario
NoRun == [pc |-> "off", n |-> 0, draw |-> << >>, last |-> << >>]

Init == InitOver(LifeFiles, LifeConfigs) /\ run = NoRun

Next ==
    \/ LoadExpertData
    \/ CreateTrainingDataCall
    \/ TrainEmpty
    \/ Train
    \/ Estimate
    \/ ClearData

Spec == Init /\ [][Next]_vars

InitData == InitOver(DataFiles, DataConfigs) /\ run = NoRun

\* create_training_data called again once clear_data has emptied the training set
CreateAfterClear ==
    /\ training_obs = << >>
    /\ CreateTrainingDataCall

NextData ==
    \/ LoadExpertData
    \/ CreateAfterClear
    \/ ClearData

SpecData == InitData /\ [][NextData]_vars

(***************************************************************************)
(* The end-to-end scenario: one call of create_training_data on three bins *)
(* of one trajectory each, of 50, 60 and 70 frames, with num_trajs = 0,    *)
(* num_snippets = 10, min_snippet_length = 5 and max_snippet_length = 20,  *)
(* from the empty training set.  The snippet loop is followed iteration by *)
(* iteration; of the training set the run keeps the number of pairs        *)
(* appended and what the pair appended last looks like.                    *)
(***************************************************************************)
ScenarioFile == Episodes(<< <<50>>, <<60>>, <<70>> >>)

ScenarioConfig == Config(0, 10, 5, 20, 1, NoPeriod)

\* of an appended pair: its label, its bins, the length drawn and the lengths
\* of the two trajectories stored
Summary(pair) ==
    [kind |-> pair.org.kind, label |-> pair.label, bi |-> pair.org.bi,
     bj |-> pair.org.bj,
     rand_length |-> IF pair.org.draw = << >> THEN 0 ELSE pair.org.draw[3],
     len_i |-> Len(pair.obs[1]), len_j |-> Len(pair.obs[2])]

NoDraw == [bi |-> 0, bj |-> 0, ti |-> 0, tj |-> 0, length |-> 0]

InitScenario ==
    /\ InitOver({ScenarioFile}, {ScenarioConfig})
    /\ run = [pc |-> "start", n |-> 0, draw |-> NoDraw, last |-> Summary(RaisedDraw)]

\* create_training_data up to its snippet loop (num_trajs = 0: the
\* full-trajectory loop does nothing)
RunBegin ==
    /\ run.pc = "start"
    /\ run' = [run EXCEPT !.pc =
                 IF \/ RaisesBeforeLoops(episodes_pkl, cfg) # "none"
                    \/ RandLengthRaises(episodes_pkl, cfg)
                 THEN "raised" ELSE "loop"]
    /\ UNCHANGED << pc, cfg, episodes_pkl, pre_expert_data, training_obs,
                    training_labels, origin, train_iter, estimate_iter, buffer,
                    call, created, estimated >>

\* an iteration of the snippet loop starts: rand_length[n], bi, bj, ti and tj
\* are drawn
RunDraw ==
    /\ run.pc = "loop"
    /\ run.n < cfg.num_snippets
    /\ \E p \in BinPairs(Len(episodes_pkl)) :
       \E ti \in EpisodeChoices(episodes_pkl, p[1]), tj \in EpisodeChoices(episodes_pkl, p[2]),
          length \in RandInt(cfg.min_snippet_length,
                             ClampedMax(DemoLengths(episodes_pkl), cfg.max_snippet_length)) :
         run' = [run EXCEPT !.pc = "drawn", !.last = Summary(RaisedDraw),
                   !.draw = [bi |-> p[1], bj |-> p[2], ti |-> ti, tj |-> tj,
                             length |-> length]]
    /\ UNCHANGED << pc, cfg, episodes_pkl, pre_expert_data, training_obs,
                    training_labels, origin, train_iter, estimate_iter, buffer,
                    call, created, estimated >>

\* the iteration ends: the starts are drawn, the snippets cut and the pair
\* and its label appended
RunAppend ==
    /\ run.pc = "drawn"
    /\ \E pair \in SnippetDraws(episodes_pkl, run.draw.bi, run.draw.bj, run.draw.ti,
                                run.draw.tj, run.draw.length) :
         run' = IF pair.org.kind = "raise" THEN [run EXCEPT !.pc = "raised"]
                ELSE [run EXCEPT !.pc = "loop", !.n = run.n + 1, !.draw = NoDraw,
                                 !.last = Summary(pair)]
    /\ UNCHANGED << pc, cfg, episodes_pkl, pre_expert_data, training_obs,
                    training_labels, origin, train_iter, estimate_iter, buffer,
                    call, created, estimated >>

\* return self.training_obs, self.training_labels
RunReturn ==
    /\ run.pc = "loop"
    /\ run.n = cfg.num_snippets
    /\ run' = [run EXCEPT !.pc = "done"]
    /\ UNCHANGED << pc, cfg, episodes_pkl, pre_expert_data, training_obs,
                    training_labels, origin, train_iter, estimate_iter, buffer,
                    call, created, estimated >>

NextScenario ==
    \/ RunBegin
    \/ RunDraw
    \/ RunAppend
    \/ RunReturn

SpecScenario == InitScenario /\ [][NextScenario]_vars

(***************************************************************************)
(* Properties.                                                             *)
(***************************************************************************)
\* the stored pairs, by position
Stored == 1..Len(training_obs)

SnippetsStored == {i \in Stored : origin[i].kind = "snippet"}

\* frame 1 of trajectory k (1 or 2) of stored pair i: <<bin, episode, index>>
FirstFrame(i, k) == training_obs[i][k][1]

\* the trajectory that trajectory k of stored snippet pair i was cut from
SourceOf(i, k) == pre_expert_data[FirstFrame(i, k)[1] + 1][FirstFrame(i, k)[2] + 1]

\* C1: every stored pair (full-trajectory or snippet) has a label of 0 or 1,
\* which is 1 exactly when the bin of its first trajectory is <= the bin of its
\* second, and its two bins differ.
C1_LabelFollowsBins ==
    /\ Len(training_labels) = Len(training_obs)
    /\ Len(origin) = Len(training_obs)
    /\ \A i \in Stored :
         /\ training_labels[i] \in {0, 1}
         /\ training_labels[i] = 1 <=> origin[i].bi <= origin[i].bj
         /\ origin[i].bi # origin[i].bj
         /\ \A k \in 1..2 : \A f \in 1..Len(training_obs[i][k]) :
              training_obs[i][k][f][1] = IF k = 1 THEN origin[i].bi ELSE origin[i].bj

\* a training set with a full-trajectory pair labelled 0 and a snippet pair
\* labelled 1
C1_Witness ==
    /\ pc = "ready"
    /\ \E i, j \in Stored :
         /\ origin[i].kind = "full" /\ training_labels[i] = 0
         /\ training_obs[i][1] # << >>
         /\ origin[j].kind = "snippet" /\ training_labels[j] = 1

\* C2: the two snippets of a stored snippet pair have the same number of frames
\* (after the down-sampling), and the snippet of the higher bin starts no
\* earlier than the snippet of the lower bin, whichever comes first in the pair.
C2_SnippetsAligned ==
    \A i \in SnippetsStored :
        /\ Len(training_obs[i][1]) = Len(training_obs[i][2])
        /\ Len(training_obs[i][1]) >= 1
        /\ IF FirstFrame(i, 1)[1] < FirstFrame(i, 2)[1]
           THEN FirstFrame(i, 2)[3] >= FirstFrame(i, 1)[3]
           ELSE FirstFrame(i, 1)[3] >= FirstFrame(i, 2)[3]

\* a snippet pair of two frames each whose first snippet is of the higher bin
\* and starts later
C2_Witness ==
    \E i \in SnippetsStored :
        /\ Len(training_obs[i][1]) = 2
        /\ Len(training_obs[i][2]) = 2
        /\ FirstFrame(i, 1)[1] > FirstFrame(i, 2)[1]
        /\ FirstFrame(i, 1)[3] > FirstFrame(i, 2)[3]

\* C6: the length drawn for a stored snippet pair is >= min_snippet_length and
\* below both the configured max_snippet_length and the length of the shortest
\* demonstration; both windows lie inside their trajectories; and no start is
\* ever drawn from an empty range.
C6_SnippetsFit ==
    /\ call.cause # "start_draw"
    /\ \A i \in SnippetsStored :
         LET length == origin[i].draw[3]
         IN /\ cfg.min_snippet_length <= length
            /\ length < cfg.max_snippet_length
            /\ \A b \in 1..Len(pre_expert_data) : \A t \in 1..Len(pre_expert_data[b]) :
                 length < Len(pre_expert_data[b][t])
            /\ \A k \in 1..2 :
                 /\ origin[i].draw[k] = FirstFrame(i, k)[3]
                 /\ 0 <= origin[i].draw[k]
                 /\ origin[i].draw[k] + length <= Len(SourceOf(i, k))

\* the clamp decides: max_snippet_length is above the shortest demonstration,
\* and a snippet of the longest length left ends on its trajectory's last frame
C6_Witness ==
    /\ pc = "ready"
    /\ \E i \in SnippetsStored :
         /\ cfg.max_snippet_length > Len(SourceOf(i, 1))
         /\ origin[i].draw[3] = Len(SourceOf(i, 1)) - 1
         /\ origin[i].draw[1] + origin[i].draw[3] = Len(SourceOf(i, 1))

\* the shortest demonstration of the file read
ShortestDemo == NpMin(DemoLengths(episodes_pkl))

CreateCalled == call.op \in {"load_expert_data", "create_training_data"}

\* C7 as stated: create_training_data raises whenever there are fewer than two
\* bins, or num_trajs or num_snippets is negative, or min_snippet_length >= the
\* clamped max_snippet_length, whatever num_snippets is.
C7_AsStated ==
    CreateCalled =>
        (( \/ Len(episodes_pkl) < 2
           \/ cfg.num_trajs < 0
           \/ cfg.num_snippets < 0
           \/ /\ ~NpMinRaises(DemoLengths(episodes_pkl))
              /\ cfg.min_snippet_length >= Min2(ShortestDemo, cfg.max_snippet_length))
         => call.raised)

\* C7 (amended): create_training_data raises whenever there are fewer than two
\* bins, or num_trajs or num_snippets is negative, or num_snippets > 0 and
\* min_snippet_length >= the clamped max_snippet_length; and a constructor that
\* raised leaves no trainer.
C7_FailFast ==
    CreateCalled =>
        /\ ( \/ Len(episodes_pkl) < 2
             \/ cfg.num_trajs < 0
             \/ cfg.num_snippets < 0
             \/ /\ cfg.num_snippets > 0
                /\ ~NpMinRaises(DemoLengths(episodes_pkl))
                /\ cfg.min_snippet_length >= Min2(ShortestDemo, cfg.max_snippet_length))
           => call.raised
        /\ call.raised => pc = "failed"

\* the constructor raised on the snippet bounds alone
C7_Witness ==
    /\ call.op = "load_expert_data"
    /\ call.raised
    /\ call.cause = "rand_length"
    /\ cfg.num_snippets > 0
    /\ cfg.num_trajs > 0
    /\ Len(episodes_pkl) >= 2
    /\ cfg.min_snippet_length >= Min2(ShortestDemo, cfg.max_snippet_length)

\* a step by which a call of create_training_data returns
CreateReturns == created' = created + 1

\* C8: a call of create_training_data that returns appends num_trajs +
\* num_snippets pairs and as many labels behind the ones stored, which stay as
\* they are; and after k such calls since the set was last empty it holds
\* k * (num_trajs + num_snippets) pairs, the i-th label being that of the i-th
\* pair.
C8_Additive ==
    /\ [](pc = "ready" =>
            /\ Len(training_obs) = created * (cfg.num_trajs + cfg.num_snippets)
            /\ Len(training_labels) = Len(training_obs)
            /\ \A i \in Stored :
                 /\ training_labels[i] = (IF origin[i].bi <= origin[i].bj THEN 1 ELSE 0)
                 /\ \A k \in 1..2 : \A f \in 1..Len(training_obs[i][k]) :
                      training_obs[i][k][f][1] =
                          IF k = 1 THEN origin[i].bi ELSE origin[i].bj)
    /\ [][CreateReturns =>
            /\ Len(training_obs') = Len(training_obs) + cfg.num_trajs + cfg.num_snippets
            /\ Len(training_labels') = Len(training_labels) + cfg.num_trajs + cfg.num_snippets
            /\ SubSeq(training_obs', 1, Len(training_obs)) = training_obs
            /\ SubSeq(training_labels', 1, Len(training_labels)) = training_labels]_vars

\* a second call has appended the pair the first one stored, once more
C8_Witness ==
    /\ call.op = "create_training_data"
    /\ created = 2
    /\ Len(training_obs) = 2
    /\ training_obs[1] = training_obs[2]
    /\ training_obs[1][1] # << >>

C5_ClearOnPeriod ==
    [][call'.op = "clear_data" /\ ~call'.raised =>
        IF cfg.clear_buffer_per_iters = NoPeriod
        THEN training_obs' = training_obs /\ training_labels' = training_labels
        ELSE IF call'.iter % cfg.clear_buffer_per_iters = 0
        THEN training_obs' = << >> /\ training_labels' = << >>
        ELSE training_obs' = training_obs /\ training_labels' = training_labels]_vars

\* clear_data(0) has emptied a training set that construction had filled, under
\* the longest period
C5_Witness ==
    /\ call.op = "clear_data"
    /\ call.iter = 0
    /\ cfg.clear_buffer_per_iters = MaxPeriod
    /\ cfg.num_trajs + cfg.num_snippets > 0
    /\ training_obs = << >>
    /\ training_labels = << >>

\* C9: on a training set that is not empty train() returns; each of its epochs
\* processes the first pair of that epoch's shuffled set and nothing else, so
\* the call makes update_per_collect loss computations, zero-grads, backward
\* passes and optimizer steps, and adds update_per_collect to train_iter.
C9_OneSamplePerEpoch ==
    /\ [](call.op = "train" /\ training_obs # << >> =>
            /\ ~call.raised
            /\ Len(call.epochs) = cfg.update_per_collect
            /\ \A e \in 1..Len(call.epochs) :
                 /\ Len(call.epochs[e].shuffled) = Len(training_obs)
                 /\ call.epochs[e].pass = << call.epochs[e].shuffled[1] >>
            /\ call.opt = [learn |-> cfg.update_per_collect,
                           zero_grad |-> cfg.update_per_collect,
                           backward |-> cfg.update_per_collect,
                           step |-> cfg.update_per_collect])
    /\ [][call'.op = "train" /\ call' # call /\ training_obs # << >> =>
            train_iter' = train_iter + cfg.update_per_collect]_vars

\* train() has run two epochs on a training set of two different pairs
C9_Witness ==
    /\ call.op = "train"
    /\ cfg.update_per_collect = 2
    /\ Len(training_obs) = 2
    /\ training_obs[1] # training_obs[2]
    /\ call.opt.step = 2
    /\ train_iter = 2
    /\ call.epochs[1].pass # call.epochs[2].pass

\* C10: estimate_iter is the number of calls of estimate that have returned.
C10_EstimateCounted == estimate_iter = estimated

\* an appended pair of the scenario is in run.last
RunAppended == run.pc \in {"loop", "done"} /\ run.n >= 1

\* C3 as stated: the scenario ends with 10 pairs; the two trajectories of each
\* stored pair have the same length, which lies in [5, 20); each label is 0 or
\* 1 and follows the bins.
C3_AsStated ==
    /\ run.pc = "done" => run.n = 10
    /\ RunAppended =>
         /\ run.last.len_i = run.last.len_j
         /\ 5 <= run.last.len_i /\ run.last.len_i < 20
         /\ run.last.label \in {0, 1}
         /\ run.last.label = 1 <=> run.last.bi <= run.last.bj

\* C3 (amended): the scenario never raises and ends with 10 pairs; the length
\* drawn for each pair lies in [5, 20), and the two trajectories stored have
\* the same length, half the length drawn rounded up, which lies in [3, 10];
\* each label is 0 or 1 and follows the bins.
C3_Scenario ==
    /\ run.pc # "raised"
    /\ run.n <= 10
    /\ run.pc = "done" => run.n = 10
    /\ RunAppended =>
         /\ 5 <= run.last.rand_length /\ run.last.rand_length < 20
         /\ run.last.len_i = run.last.len_j
         /\ run.last.len_i = (run.last.rand_length + 1) \div 2
         /\ 3 <= run.last.len_i /\ run.last.len_i <= 10
         /\ run.last.label \in {0, 1}
         /\ run.last.label = 1 <=> run.last.bi <= run.last.bj
         /\ run.last.bi # run.last.bj

\* the scenario has returned, its tenth pair a snippet of the longest length,
\* with the higher bin first
C3_Witness ==
    /\ run.pc = "done"
    /\ run.n = 10
    /\ run.last.rand_length = 19
    /\ run.last.len_i = 10
    /\ run.last.label = 0

\* the lists that hold the items of list, each as often, in some order
Reorderings(list) ==
    LET n == Len(list)
    IN {[i \in 1..n |-> list[p[i]]] :
          p \in {q \in [1..n -> 1..n] : \A i, j \in 1..n : i # j => q[i] # q[j]}}

\* C11: in every epoch of train() the list handed to the inner pass is a
\* permutation of the stored (pair, label) associations, so each pair comes
\* with the label stored with it, and the pair the pass trains on is one of
\* them; train() leaves training_obs and training_labels as they were, in
\* content and in order.
C11_ShuffleKeepsLabels ==
    /\ [](call.op = "train" =>
            \A e \in 1..Len(call.epochs) :
              /\ call.epochs[e].shuffled
                    \in Reorderings([i \in 1..Len(training_obs) |->
                          [obs |-> training_obs[i], label |-> training_labels[i]]])
              /\ \A k \in 1..Len(call.epochs[e].pass) :
                    \E i \in 1..Len(training_obs) :
                      /\ call.epochs[e].pass[k].obs = training_obs[i]
                      /\ call.epochs[e].pass[k].label = training_labels[i])
    /\ [][call'.op = "train" =>
            training_obs' = training_obs /\ training_labels' = training_labels]_vars

\* train() has run an epoch on a training set of two pairs with different
\* labels, and the epoch's shuffle has put the second pair first
C11_Witness ==
    /\ call.op = "train"
    /\ ~call.raised
    /\ Len(training_obs) = 2
    /\ training_labels[1] # training_labels[2]
    /\ Len(call.epochs) >= 1
    /\ call.epochs[1].shuffled[1].obs = training_obs[2]
    /\ call.epochs[1].shuffled[1].label = training_labels[2]
    /\ call.epochs[1].pass[1].obs = training_obs[2]

\* C12: train() on an empty training set raises, for every update_per_collect
\* of the configurations, whether construction left the set empty or
\* clear_data emptied it; the call makes no loss computation, zero-grad,
\* backward pass or optimizer step and leaves train_iter as it was.
C12_TrainEmptyRaises ==
    [][call'.op = "train" /\ training_obs = << >> /\ training_labels = << >> =>
         /\ call'.raised
         /\ call'.cause \in {"unpack", "calc_accuracy"}
         /\ call'.epochs = << >>
         /\ call'.opt = NoOpt
         /\ train_iter' = train_iter]_vars

\* with no epoch to run, train() has raised where the accuracy is computed, on
\* a training set that construction had filled and clear_data has emptied
C12_Witness ==
    /\ call.op = "train"
    /\ call.raised
    /\ call.cause = "calc_accuracy"
    /\ cfg.update_per_collect = 0
    /\ cfg.num_trajs + cfg.num_snippets > 0
    /\ cfg.clear_buffer_per_iters # NoPeriod
    /\ training_obs = << >>
    /\ training_labels = << >>
    /\ call.opt.step = 0
    /\ train_iter = 0
==========================================================================
